---- MODULE Spec2Model ----
(***************************************************************************)
(* Model of python-asyncio/python_asyncio.ipynb: the query-url helper      *)
(* gen_query_url, the sequential fetch loop over sync_tweets, and the      *)
(* concurrent dispatcher collect_queries / fetch_tweets_fancy driven by    *)
(* the asyncio event loop through loop.run_until_complete.                 *)
(*                                                                         *)
(* A python str is a sequence of one-character strings.                    *)
(***************************************************************************)
EXTENDS Integers, Sequences, FiniteSets, TLC

\* ------------------------------------------------------------------------
\* Bounds of the model
\* ------------------------------------------------------------------------
\* longest list of terms handed to gen_query_url
MaxTerms == 4
\* longest list of queries handed to the sequential loop and to collect_queries
MaxQueries == 3

\* default of the max_results parameter of gen_query_url
DefaultMaxResults == 100

VARIABLES
    args,       \* arguments of the last gen_query_url call
    query,      \* value returned by the last gen_query_url call
    queries,    \* the list of queries of the notebook
    main,       \* position of the notebook's top-level code
    syncLists,  \* per-query lists collected by the sequential loop so far
    tweets,     \* outcome of the sequential cell
    session,    \* the aiohttp.ClientSession of collect_queries
    acquired,   \* number of sessions entered
    released,   \* number of sessions closed
    tasks,      \* the tasks list of collect_queries
    calls,      \* number of session.get calls per query position
    ready,      \* the event loop's queue of ready callbacks
    ntodo,      \* callbacks left to run in the current loop iteration
    stopping,   \* the event loop's stop flag
    co,         \* position of the collect_queries coroutine
    gather,     \* the future returned by asyncio.gather
    retval,     \* value returned by collect_queries
    res         \* outcome of the concurrent cell

urlVars == <<args, query>>
syncVars == <<syncLists, tweets>>
asyncVars == <<session, acquired, released, tasks, calls, ready, ntodo,
               stopping, co, gather, retval, res>>
vars == <<args, query, queries, main, syncLists, tweets, session, acquired,
          released, tasks, calls, ready, ntodo, stopping, co, gather, retval,
          res>>

\* ------------------------------------------------------------------------
\* Python built-ins used by gen_query_url
\* ------------------------------------------------------------------------
Whitespace == {" ", "\t"}

Digits == <<"0", "1", "2", "3", "4", "5", "6", "7", "8", "9">>

\* str.join: sep.join(parts)
RECURSIVE StrJoin(_, _)
StrJoin(sep, parts) ==
    IF parts = <<>> THEN <<>>
    ELSE IF Len(parts) = 1 THEN parts[1]
    ELSE parts[1] \o sep \o StrJoin(sep, Tail(parts))

\* str.split() without a separator: split on runs of whitespace, no empty pieces
RECURSIVE StrSplitFrom(_, _, _)
StrSplitFrom(s, word, acc) ==
    IF s = <<>> THEN (IF word = <<>> THEN acc ELSE Append(acc, word))
    ELSE IF Head(s) \in Whitespace
         THEN StrSplitFrom(Tail(s), <<>>, IF word = <<>> THEN acc ELSE Append(acc, word))
         ELSE StrSplitFrom(Tail(s), Append(word, Head(s)), acc)

StrSplit(s) == StrSplitFrom(s, <<>>, <<>>)

\* "{}".format(n) for an int n
RECURSIVE FormatNat(_)
FormatNat(n) ==
    IF n < 10 THEN <<Digits[n + 1]>>
    ELSE Append(FormatNat(n \div 10), Digits[(n % 10) + 1])

FormatInt(n) == IF n < 0 THEN <<"-">> \o FormatNat(0 - n) ELSE FormatNat(n)

QueryEq == <<"q", "u", "e", "r", "y", "=">>
EncodedSpace == <<"%", "2", "0">>
MaxResultsEq == <<"&", "m", "a", "x", "R", "e", "s", "u", "l", "t", "s", "=">>

\* gen_query_url joining the terms with a raw space instead of the encoded one
gen_query_url_raw_space(url, terms, max_results) ==
    LET split == IF terms.kind = "str" THEN StrSplit(terms.val) ELSE terms.val
    IN  StrJoin(<<>>, <<url,
                        QueryEq,
                        StrJoin(<<" ">>, split),
                        MaxResultsEq \o FormatInt(max_results)>>)

\* gen_query_url(url, terms, max_results); terms is [kind |-> "str" | "list", val |-> ...]
gen_query_url(url, terms, max_results) ==
    LET split == IF terms.kind = "str" THEN StrSplit(terms.val) ELSE terms.val
    IN  StrJoin(<<>>, <<url,
                        QueryEq,
                        StrJoin(EncodedSpace, split),
                        MaxResultsEq \o FormatInt(max_results)>>)

\* ------------------------------------------------------------------------
\* Inputs of gen_query_url
\* ------------------------------------------------------------------------
ExampleUrl == <<"h", "t", "t", "p", "s", ":", "/", "/", "x", "/", "?">>
Urls == {ExampleUrl, <<"u", "?">>, <<>>}

Words == {<<"j", "u", "s", "t">>, <<"b", "o", "u", "g", "h", "t">>, <<"a">>,
          <<"h", "o", "u", "s", "e">>, <<>>}

TermLists == UNION {[1..n -> Words] : n \in 0..MaxTerms}

TermStrs == {<<"j", "u", "s", "t", " ", "b", "o", "u", "g", "h", "t", " ", "a",
               " ", "h", "o", "u", "s", "e">>,
             <<" ", "a", " ", "\t", "h", "o", "u", "s", "e", " ">>,
             <<"a">>,
             <<" ">>,
             <<>>}

TermArgs == {[kind |-> "list", val |-> t] : t \in TermLists}
            \cup {[kind |-> "str", val |-> s] : s \in TermStrs}

MaxResultsArgs == {DefaultMaxResults, 0, 7, 10, 2500, -5}

UrlCalls == {[called |-> FALSE, url |-> u, terms |-> t, max_results |-> m] :
                u \in Urls, t \in TermArgs, m \in MaxResultsArgs}

NoCall == [called |-> FALSE, url |-> <<>>, terms |-> [kind |-> "list", val |-> <<>>],
           max_results |-> 0]

\* ------------------------------------------------------------------------
\* State before any cell of the dispatcher part has run
\* ------------------------------------------------------------------------
NoGather == [state |-> "none", results |-> <<>>, nfinished |-> 0]
Unset == [state |-> "unset", val |-> <<>>]

IdleAsync ==
    /\ session = "none"
    /\ acquired = 0
    /\ released = 0
    /\ tasks = <<>>
    /\ ready = <<>>
    /\ ntodo = 0
    /\ stopping = FALSE
    /\ co = "none"
    /\ gather = NoGather
    /\ retval = <<>>
    /\ res = Unset

\* ------------------------------------------------------------------------
\* Specification of the gen_query_url calls
\* ------------------------------------------------------------------------
InitUrl ==
    /\ args \in UrlCalls
    /\ query = <<>>
    /\ queries = <<>>
    /\ main = "url"
    /\ syncLists = <<>>
    /\ tweets = Unset
    /\ calls = <<>>
    /\ IdleAsync

\* query = gen_query_url(url, terms, max_results)
GenQueryUrlCall ==
    /\ main = "url"
    /\ ~args.called
    /\ args' = [args EXCEPT !.called = TRUE]
    /\ query' = gen_query_url(args.url, args.terms, args.max_results)
    /\ UNCHANGED <<queries, main, syncVars, asyncVars>>

NextUrl == GenQueryUrlCall

SpecUrl == InitUrl /\ [][NextUrl]_vars

\* ------------------------------------------------------------------------
\* The remote endpoint: what each query is answered with
\* ------------------------------------------------------------------------
QueryNames == {"q1", "q2", "q3", "qNet", "q500", "q404"}

\* net: the connection succeeds; status: the HTTP status; json: the body parses;
\* has_results: the parsed body has a "results" field; results: that field
Endpoint(q) ==
    CASE q = "q1"   -> [net |-> TRUE, status |-> 200, json |-> TRUE,
                        has_results |-> TRUE, results |-> <<1>>]
      [] q = "q2"   -> [net |-> TRUE, status |-> 200, json |-> TRUE,
                        has_results |-> TRUE, results |-> <<2, 3>>]
      [] q = "q3"   -> [net |-> TRUE, status |-> 200, json |-> TRUE,
                        has_results |-> TRUE, results |-> <<4>>]
      [] q = "qNet" -> [net |-> FALSE, status |-> 0, json |-> FALSE,
                        has_results |-> FALSE, results |-> <<>>]
      [] q = "q500" -> [net |-> TRUE, status |-> 500, json |-> TRUE,
                        has_results |-> TRUE, results |-> <<5>>]
      [] OTHER      -> [net |-> TRUE, status |-> 404, json |-> TRUE,
                        has_results |-> FALSE, results |-> <<>>]

\* the notebook's query lists: up to MaxQueries pairwise different queries
QueryLists ==
    {l \in UNION {[1..n -> QueryNames] : n \in 0..MaxQueries} :
        \A x, y \in DOMAIN l : x # y => l[x] # l[y]}

\* ------------------------------------------------------------------------
\* Helpers shared by the sequential and the concurrent cell
\* ------------------------------------------------------------------------
\* Tweet(t): the tweet object wrapping the raw record t
Tweet(t) == [raw |-> t]

\* [Tweet(t) for t in records]
Tweets(records) == [j \in 1..Len(records) |-> Tweet(records[j])]

\* it.chain.from_iterable(lists), as a list
RECURSIVE ChainFromIterable(_)
ChainFromIterable(lists) ==
    IF lists = <<>> THEN <<>>
    ELSE Head(lists) \o ChainFromIterable(Tail(lists))

Raised == [ok |-> FALSE, val |-> <<>>]
Returned(v) == [ok |-> TRUE, val |-> v]

\* sync_tweets rejecting a non-2xx response before reading the body
sync_tweets_raise_for_status(q) ==
    LET resp == Endpoint(q)
    IN  IF ~resp.net THEN Raised
        ELSE IF resp.status \notin 200..299 THEN Raised
        ELSE IF ~resp.json THEN Raised
        ELSE IF ~resp.has_results THEN Raised
        ELSE Returned(resp.results)

\* requests.get(url=query, auth=AUTH).json()['results']
sync_tweets(q) ==
    LET resp == Endpoint(q)
    IN  IF ~resp.net THEN Raised
        ELSE IF ~resp.json THEN Raised
        ELSE IF ~resp.has_results THEN Raised
        ELSE Returned(resp.results)

\* fetch body read with _json.get("results", []) instead of _json["results"]
FetchBodyDefault(resp) ==
    IF ~resp.json THEN Raised
    ELSE IF ~resp.has_results THEN Returned(<<>>)
    ELSE Returned(Tweets(resp.results))

\* _json = await response.json(); return [Tweet(t) for t in _json["results"]]
FetchBody(resp) ==
    IF ~resp.json THEN Raised
    ELSE IF ~resp.has_results THEN Raised
    ELSE Returned(Tweets(resp.results))

\* ------------------------------------------------------------------------
\* The sequential cell: [sync_tweets(query) for query in queries]
\* ------------------------------------------------------------------------
Init ==
    /\ args = NoCall
    /\ query = <<>>
    /\ queries \in QueryLists
    /\ main = "sync"
    /\ syncLists = <<>>
    /\ tweets = Unset
    /\ calls = [j \in 1..Len(queries) |-> 0]
    /\ IdleAsync

\* one iteration of the list comprehension over queries
SyncFetch ==
    /\ main = "sync"
    /\ Len(syncLists) < Len(queries)
    /\ LET r == sync_tweets(queries[Len(syncLists) + 1])
       IN  IF r.ok
           THEN /\ syncLists' = Append(syncLists, r.val)
                /\ UNCHANGED <<main, tweets>>
           ELSE /\ tweets' = [state |-> "raised", val |-> <<>>]
                /\ main' = "cell274"
                /\ UNCHANGED syncLists
    /\ UNCHANGED <<urlVars, queries, asyncVars>>

\* tweets = [Tweet(i) for i in it.chain.from_iterable([...])]
SyncFinish ==
    /\ main = "sync"
    /\ Len(syncLists) = Len(queries)
    /\ tweets' = [state |-> "set", val |-> Tweets(ChainFromIterable(syncLists))]
    /\ main' = "cell274"
    /\ UNCHANGED <<urlVars, queries, syncLists, asyncVars>>

\* ------------------------------------------------------------------------
\* The event loop: callbacks ready to run, and tasks waiting for the network
\* ------------------------------------------------------------------------
CoCb == [type |-> "co", i |-> 0]
TaskCb(i) == [type |-> "task", i |-> i]
GatherCb(i) == [type |-> "gather", i |-> i]
StopCb == [type |-> "stop", i |-> 0]

\* tasks suspended on the network for which no wake-up is queued yet
WaitingIO ==
    {i \in 1..Len(tasks) :
        /\ tasks[i].state \in {"get", "json"}
        /\ \A j \in 1..Len(ready) : ready[j] # TaskCb(i)}

InFlight == {i \in 1..Len(tasks) : tasks[i].state \in {"get", "json"}}

\* the orders in which the responses of some of the tasks in S can arrive
Arrivals(S) ==
    {a \in UNION {[1..n -> S] : n \in 0..Cardinality(S)} :
        \A x, y \in DOMAIN a : x # y => a[x] # a[y]}

\* a callback may run: the loop is inside an iteration and no coroutine is running
MayRun(cb) ==
    /\ main = "loop"
    /\ co # "for"
    /\ ntodo > 0
    /\ ready # <<>>
    /\ Head(ready) = cb

\* loop = asyncio.get_event_loop(); future = asyncio.ensure_future(collect_queries(queries));
\* loop.run_until_complete(future)
RunCell ==
    /\ main = "cell274"
    /\ main' = "loop"
    /\ co' = "unstarted"
    /\ ready' = <<CoCb>>
    /\ UNCHANGED <<urlVars, queries, syncVars, session, acquired, released, tasks,
                   calls, ntodo, stopping, gather, retval, res>>

\* start of one loop iteration: collect the network events that have arrived
LoopPoll ==
    /\ main = "loop"
    /\ co # "for"
    /\ ntodo = 0
    /\ ~stopping
    /\ \E a \in Arrivals(WaitingIO) :
         /\ ready # <<>> \/ a # <<>>
         /\ ready' = ready \o [j \in 1..Len(a) |-> TaskCb(a[j])]
         /\ ntodo' = Len(ready')
    /\ UNCHANGED <<urlVars, queries, main, syncVars, session, acquired, released,
                   tasks, calls, stopping, co, gather, retval, res>>

\* ------------------------------------------------------------------------
\* collect_queries
\* ------------------------------------------------------------------------
\* a session closed on the normal path only
AExitLeakOnError(s, exc) == IF exc THEN s ELSE "closed"

\* ClientSession.__aexit__: the session is closed however the block is left
AExit(s, exc) == "closed"

\* the gather placed inside the loop body: it runs after the first task
LoopDoneAfterFirst(ts, qs) == Len(ts) >= 1 \/ Len(qs) = 0

\* the for loop over queries has created a task for every query
LoopDone(ts, qs) == Len(ts) = Len(qs)

\* leaving the async with block and the coroutine
CoExit(exc) ==
    /\ session' = AExit(session, exc)
    /\ released' = IF session = "open" /\ session' = "closed"
                   THEN released + 1 ELSE released
    /\ co' = IF exc THEN "raised" ELSE "returned"

\* tasks = []; async with aiohttp.ClientSession() as session:
CoStart ==
    /\ MayRun(CoCb)
    /\ co = "unstarted"
    /\ ready' = Tail(ready)
    /\ ntodo' = ntodo - 1
    /\ tasks' = <<>>
    /\ session' = "open"
    /\ acquired' = acquired + 1
    /\ co' = "for"
    /\ UNCHANGED <<urlVars, queries, main, syncVars, released, calls, stopping,
                   gather, retval, res>>

\* task = asyncio.ensure_future(fetch_tweets_fancy(session, query)); tasks.append(task)
CoCreateTask ==
    /\ main = "loop"
    /\ co = "for"
    /\ ~LoopDone(tasks, queries)
    /\ tasks' = Append(tasks, [state |-> "scheduled", result |-> <<>>])
    /\ ready' = Append(ready, TaskCb(Len(tasks) + 1))
    /\ UNCHANGED <<urlVars, queries, main, syncVars, session, acquired, released,
                   calls, ntodo, stopping, co, gather, retval, res>>

\* responses = await asyncio.gather(*tasks): with no task the future is done at once
\* and the coroutine returns without suspending
CoGather ==
    /\ main = "loop"
    /\ co = "for"
    /\ LoopDone(tasks, queries)
    /\ IF tasks = <<>>
       THEN /\ gather' = [state |-> "result", results |-> <<>>, nfinished |-> 0]
            /\ retval' = <<>>
            /\ CoExit(FALSE)
            /\ ready' = Append(ready, StopCb)
       ELSE /\ gather' = [state |-> "pending",
                          results |-> [j \in 1..Len(tasks) |-> <<>>],
                          nfinished |-> 0]
            /\ co' = "awaiting"
            /\ UNCHANGED <<session, released, retval, ready>>
    /\ UNCHANGED <<urlVars, queries, main, syncVars, acquired, tasks, calls, ntodo,
                   stopping, res>>

\* the coroutine wakes up with the outcome of gather: return responses, or the
\* exception leaves the coroutine
CoResume ==
    /\ MayRun(CoCb)
    /\ co = "awaiting"
    /\ gather.state \in {"result", "exception"}
    /\ retval' = IF gather.state = "result" THEN gather.results ELSE retval
    /\ CoExit(gather.state = "exception")
    /\ ready' = Append(Tail(ready), StopCb)
    /\ ntodo' = ntodo - 1
    /\ UNCHANGED <<urlVars, queries, main, syncVars, acquired, tasks, calls,
                   stopping, gather, res>>

\* ------------------------------------------------------------------------
\* fetch_tweets_fancy, one task per query
\* ------------------------------------------------------------------------
\* the request sent a second time
IssueCallTwice(cs, i) == [cs EXCEPT ![i] = @ + 2]

\* one outbound request for position i
IssueCall(cs, i) == [cs EXCEPT ![i] = @ + 1]

Finished(t, outcome) ==
    [state |-> IF outcome.ok THEN "done" ELSE "failed", result |-> outcome.val]

\* the task runs from one suspension point to the next; lost: the connection was
\* torn down by a closed session
TaskNext(t, resp, open, lost) ==
    CASE t.state = "scheduled" ->
            IF open THEN [t EXCEPT !.state = "get"] ELSE Finished(t, Raised)
      [] t.state = "get" ->
            IF lost \/ ~resp.net THEN Finished(t, Raised)
            ELSE [t EXCEPT !.state = "json"]
      [] t.state = "json" ->
            IF lost THEN Finished(t, Raised) ELSE Finished(t, FetchBody(resp))
      [] OTHER -> t

TaskStep(i) ==
    /\ MayRun(TaskCb(i))
    /\ \E lost \in (IF session = "closed" THEN {FALSE, TRUE} ELSE {FALSE}) :
         LET t == TaskNext(tasks[i], Endpoint(queries[i]), session = "open", lost)
         IN  /\ tasks' = [tasks EXCEPT ![i] = t]
             /\ calls' = IF tasks[i].state = "scheduled" /\ t.state = "get"
                         THEN IssueCall(calls, i) ELSE calls
             /\ ready' = IF t.state \in {"done", "failed"}
                         THEN Append(Tail(ready), GatherCb(i))
                         ELSE Tail(ready)
    /\ ntodo' = ntodo - 1
    /\ UNCHANGED <<urlVars, queries, main, syncVars, session, acquired, released,
                   stopping, co, gather, retval, res>>

\* ------------------------------------------------------------------------
\* asyncio.gather's callback on each task
\* ------------------------------------------------------------------------
\* results kept in the order of completion
GatherStoreByArrival(g, i, val) == [g.results EXCEPT ![g.nfinished + 1] = val]

\* results[i] = fut.result()
GatherStore(g, i, val) == [g.results EXCEPT ![i] = val]

\* _done_callback(i, fut) as with return_exceptions=True: a failure is a result
GatherOnDoneReturnExceptions(g, i, t) ==
    IF g.state # "pending" THEN g
    ELSE [state |-> IF g.nfinished + 1 = Len(g.results) THEN "result" ELSE "pending",
          results |-> GatherStore(g, i, t.result),
          nfinished |-> g.nfinished + 1]

\* _done_callback(i, fut) with return_exceptions=False
GatherOnDone(g, i, t) ==
    IF g.state # "pending" THEN g
    ELSE IF t.state = "failed" THEN [g EXCEPT !.state = "exception"]
    ELSE [state |-> IF g.nfinished + 1 = Len(g.results) THEN "result" ELSE "pending",
          results |-> GatherStore(g, i, t.result),
          nfinished |-> g.nfinished + 1]

GatherCallback(i) ==
    /\ MayRun(GatherCb(i))
    /\ gather' = GatherOnDone(gather, i, tasks[i])
    /\ ready' = IF gather.state = "pending" /\ gather'.state # "pending"
                THEN Append(Tail(ready), CoCb)
                ELSE Tail(ready)
    /\ ntodo' = ntodo - 1
    /\ UNCHANGED <<urlVars, queries, main, syncVars, session, acquired, released,
                   tasks, calls, stopping, co, retval, res>>

\* ------------------------------------------------------------------------
\* run_until_complete: stop the loop once the future is done, then its result
\* ------------------------------------------------------------------------
StopCallback ==
    /\ MayRun(StopCb)
    /\ stopping' = TRUE
    /\ ready' = Tail(ready)
    /\ ntodo' = ntodo - 1
    /\ UNCHANGED <<urlVars, queries, main, syncVars, session, acquired, released,
                   tasks, calls, co, gather, retval, res>>

\* res = list(it.chain.from_iterable(loop.run_until_complete(future)))
MainFinish ==
    /\ main = "loop"
    /\ stopping
    /\ ntodo = 0
    /\ IF co = "returned"
       THEN /\ res' = [state |-> "set", val |-> ChainFromIterable(retval)]
            /\ main' = "done"
       ELSE /\ res' = [state |-> "raised", val |-> <<>>]
            /\ main' = "error"
    /\ UNCHANGED <<urlVars, queries, syncVars, session, acquired, released, tasks,
                   calls, ready, ntodo, stopping, co, gather, retval>>

Next ==
    \/ SyncFetch
    \/ SyncFinish
    \/ RunCell
    \/ LoopPoll
    \/ CoStart
    \/ CoCreateTask
    \/ CoGather
    \/ CoResume
    \/ \E i \in 1..MaxQueries : TaskStep(i)
    \/ \E i \in 1..MaxQueries : GatherCallback(i)
    \/ StopCallback
    \/ MainFinish

Spec == Init /\ [][Next]_vars

\* ------------------------------------------------------------------------
\* Vocabulary of the properties
\* ------------------------------------------------------------------------
\* the response to q lets a fetch of q succeed
FetchSucceeds(q) ==
    Endpoint(q).net /\ Endpoint(q).json /\ Endpoint(q).has_results

AllSucceed == \A k \in 1..Len(queries) : FetchSucceeds(queries[k])

\* the response to q carries a status outside 2xx
NonSuccessStatus(q) == Endpoint(q).net /\ Endpoint(q).status \notin 200..299

Exited == co \in {"returned", "raised"}
CellOver == main \in {"done", "error"}

\* number of results of the queries before position k
RECURSIVE Offset(_, _)
Offset(qs, k) ==
    IF k <= 1 THEN 0 ELSE Offset(qs, k - 1) + Len(Endpoint(qs[k - 1]).results)

\* ------------------------------------------------------------------------
\* C1: when every fetch succeeds, the concurrent cell ends with res holding,
\* for each query in the order of submission, that query's results in their
\* order, one after the other, whatever the order of arrival; q1, q2, q3
\* answered [1], [2,3], [4] give [1,2,3,4], and no query gives the empty list.
\* ------------------------------------------------------------------------
ClaimC1 ==
    (CellOver /\ AllSucceed) =>
        /\ main = "done"
        /\ res.state = "set"
        /\ Len(res.val) = Offset(queries, Len(queries) + 1)
        /\ \A k \in 1..Len(queries) :
             \A j \in 1..Len(Endpoint(queries[k]).results) :
                res.val[Offset(queries, k) + j] = Tweet(Endpoint(queries[k]).results[j])
        /\ (queries = <<"q1", "q2", "q3">>
               => res.val = <<Tweet(1), Tweet(2), Tweet(3), Tweet(4)>>)
        /\ (queries = <<>> => res.val = <<>>)

\* the cell has ended on q1, q2, q3 with [1,2,3,4]
WitnessC1 ==
    /\ main = "done"
    /\ queries = <<"q1", "q2", "q3">>
    /\ res.val = <<Tweet(1), Tweet(2), Tweet(3), Tweet(4)>>

\* ------------------------------------------------------------------------
\* C2: once a fetch has failed, collect_queries does not return a list and the
\* cell sets no res; a batch with a failing query ends with the error.
\* ------------------------------------------------------------------------
ClaimC2 ==
    /\ (\E i \in 1..Len(tasks) : tasks[i].state = "failed")
          => (co # "returned" /\ res.state # "set")
    /\ (CellOver /\ ~AllSucceed) => (co = "raised" /\ main = "error")

WitnessC2 ==
    /\ main = "error"
    /\ co = "raised"
    /\ \E i, j \in 1..Len(tasks) :
         tasks[i].state = "failed" /\ tasks[j].state = "done"

\* ------------------------------------------------------------------------
\* C3: collect_queries has not exited, by return or by error, while one of
\* its fetches is still pending.
\* ------------------------------------------------------------------------
ClaimC3 ==
    Exited => \A i \in 1..Len(tasks) : tasks[i].state \in {"done", "failed"}

\* ------------------------------------------------------------------------
\* C4: a call of collect_queries enters one session and closes it once; after
\* the call has exited, by return or by error, the session is closed.
\* ------------------------------------------------------------------------
ClaimC4 ==
    /\ acquired <= 1
    /\ released <= acquired
    /\ (session = "open") = (acquired = 1 /\ released = 0)
    /\ Exited => (acquired = 1 /\ released = 1 /\ session = "closed")

WitnessC4 ==
    /\ co = "raised"
    /\ released = 1
    /\ \E i \in 1..Len(tasks) : tasks[i].state = "failed"

\* ------------------------------------------------------------------------
\* C6: no query is requested more than once, and once collect_queries has
\* exited every query has been requested exactly once, so N queries make N
\* requests and no query makes none.
\* ------------------------------------------------------------------------
ClaimC6 ==
    /\ Len(calls) = Len(queries)
    /\ \A i \in 1..Len(calls) : calls[i] <= 1
    /\ Exited => \A i \in 1..Len(calls) : calls[i] = 1

WitnessC6 ==
    /\ main = "error"
    /\ Len(queries) = MaxQueries
    /\ \A i \in 1..Len(calls) : calls[i] = 1

\* ------------------------------------------------------------------------
\* C7 as stated: a fetch whose response has a non-2xx status never completes
\* with a result list.
\* ------------------------------------------------------------------------
ClaimC7 ==
    \A i \in 1..Len(tasks) :
        NonSuccessStatus(queries[i]) => tasks[i].state # "done"

\* C7 amended: a fetch completes with a result list only if the connection
\* succeeded, the body parsed and it has a "results" field, and then the list
\* is the Tweets of that field, whatever the status; while the session is open
\* a fetch fails only if one of the three is missing.
AmendedC7 ==
    \A i \in 1..Len(tasks) :
        /\ tasks[i].state = "done" =>
              /\ FetchSucceeds(queries[i])
              /\ tasks[i].result = Tweets(Endpoint(queries[i]).results)
        /\ (tasks[i].state = "failed" /\ session = "open") =>
              ~FetchSucceeds(queries[i])

WitnessC7 ==
    \E i \in 1..Len(tasks) :
        /\ queries[i] = "q500"
        /\ tasks[i].state = "done"
        /\ tasks[i].result = <<Tweet(5)>>

\* ------------------------------------------------------------------------
\* C8: when collect_queries suspends, a task exists for every query, and no
\* task is still waiting to start once some task has completed or failed.
\* ------------------------------------------------------------------------
ClaimC8 ==
    /\ co \in {"awaiting", "returned", "raised"} => Len(tasks) = Len(queries)
    /\ (\E i \in 1..Len(tasks) : tasks[i].state \in {"done", "failed"})
          => \A j \in 1..Len(queries) :
                j <= Len(tasks) /\ tasks[j].state # "scheduled"

\* all fetches in flight at once
WitnessC8 ==
    /\ Len(queries) = MaxQueries
    /\ co = "awaiting"
    /\ InFlight = 1..Len(queries)

\* ------------------------------------------------------------------------
\* C9: no fetch is in flight once the session has been closed.
\* ------------------------------------------------------------------------
ClaimC9 ==
    session = "closed" => InFlight = {}

\* ------------------------------------------------------------------------
\* C10: when every fetch succeeds, the sequential cell and the concurrent cell
\* both end with a list, and the two lists are the same sequence.
\* ------------------------------------------------------------------------
ClaimC10 ==
    /\ (main = "done" /\ tweets.state = "set") => res.val = tweets.val
    /\ (CellOver /\ AllSucceed) =>
          (tweets.state = "set" /\ res.state = "set" /\ res.val = tweets.val)

WitnessC10 ==
    /\ main = "done"
    /\ tweets.state = "set"
    /\ Len(queries) = MaxQueries
    /\ Len(res.val) >= MaxQueries
    /\ res.val = tweets.val

\* ------------------------------------------------------------------------
\* C5: for a non-empty list of terms, the string gen_query_url returns is the
\* url, then "query=", then the terms in their order with "%20" between two
\* neighbours, then "&maxResults=" and max_results in decimal, and nothing
\* else; "https://x/?", [just, bought, a, house], 100 give
\* "https://x/?query=just%20bought%20a%20house&maxResults=100"; the call
\* leaves the rest of the state as it was.
\* ------------------------------------------------------------------------
\* where term k starts in the joined terms
RECURSIVE TermStart(_, _)
TermStart(T, k) == IF k <= 1 THEN 0 ELSE TermStart(T, k - 1) + Len(T[k - 1]) + 3

DigitValue(c) == CHOOSE d \in 0..9 : Digits[d + 1] = c

RECURSIVE DecimalValue(_)
DecimalValue(d) ==
    IF d = <<>> THEN 0
    ELSE 10 * DecimalValue(SubSeq(d, 1, Len(d) - 1)) + DigitValue(d[Len(d)])

\* d is the decimal numeral of the natural number n
IsNumeral(d, n) ==
    /\ d # <<>>
    /\ \A j \in 1..Len(d) : \E v \in 1..10 : Digits[v] = d[j]
    /\ Len(d) > 1 => d[1] # "0"
    /\ DecimalValue(d) = n

IsDecimal(d, n) ==
    IF n < 0 THEN d # <<>> /\ d[1] = "-" /\ IsNumeral(Tail(d), 0 - n)
    ELSE IsNumeral(d, n)

ExampleTerms == <<<<"j", "u", "s", "t">>, <<"b", "o", "u", "g", "h", "t">>, <<"a">>,
                  <<"h", "o", "u", "s", "e">>>>

ExampleQuery ==
    <<"h", "t", "t", "p", "s", ":", "/", "/", "x", "/", "?", "q", "u", "e", "r",
      "y", "=", "j", "u", "s", "t", "%", "2", "0", "b", "o", "u", "g", "h", "t",
      "%", "2", "0", "a", "%", "2", "0", "h", "o", "u", "s", "e", "&", "m", "a",
      "x", "R", "e", "s", "u", "l", "t", "s", "=", "1", "0", "0">>

ClaimC5 ==
    /\ (args.called /\ args.terms.kind = "list" /\ args.terms.val # <<>>) =>
        LET E == args.url
            T == args.terms.val
            b == Len(E) + 6
            e == b + TermStart(T, Len(T) + 1) - 3
        IN  /\ Len(query) > e + 12
            /\ SubSeq(query, 1, Len(E)) = E
            /\ SubSeq(query, Len(E) + 1, b) = <<"q", "u", "e", "r", "y", "=">>
            /\ \A k \in 1..Len(T) :
                 SubSeq(query, b + TermStart(T, k) + 1,
                        b + TermStart(T, k) + Len(T[k])) = T[k]
            /\ \A k \in 1..(Len(T) - 1) :
                 SubSeq(query, b + TermStart(T, k + 1) - 2,
                        b + TermStart(T, k + 1)) = <<"%", "2", "0">>
            /\ SubSeq(query, e + 1, e + 12)
                 = <<"&", "m", "a", "x", "R", "e", "s", "u", "l", "t", "s", "=">>
            /\ IsDecimal(SubSeq(query, e + 13, Len(query)), args.max_results)
            /\ ((E = ExampleUrl /\ T = ExampleTerms /\ args.max_results = 100)
                   => query = ExampleQuery)
    /\ queries = <<>> /\ main = "url" /\ tweets = Unset /\ IdleAsync

WitnessC5 ==
    /\ args.called
    /\ args.url = ExampleUrl
    /\ args.terms = [kind |-> "list", val |-> ExampleTerms]
    /\ args.max_results = 100
    /\ query = ExampleQuery

====
